---- MODULE Spec2Model ----
(***************************************************************************)
(* State-machine model of the LVMH financial RAG query pipeline            *)
(* (src/src/rag_pipeline.py) with its collaborators: the vector store      *)
(* (src/src/vector_store.py), the reranker (src/src/reranker.py) and the   *)
(* LLM client (src/src/llm_client.py).                                     *)
(*                                                                         *)
(* Conventions                                                             *)
(*  - A Python str is a sequence of tokens; the token " " is whitespace,   *)
(*    every other token is a run of characters that neither starts nor     *)
(*    ends with whitespace.  In the texts the program splits into words    *)
(*    (questions, page contents) every such token is one word.             *)
(*  - A Python float score is a fixed-point integer in units of 1e-6; a    *)
(*    value rounded to 3 decimals is an integer in units of 1e-3.          *)
(*  - datetime.now() is the integer clock `now`; Config.cache_ttl is in    *)
(*    the same unit.  Latencies are integers (milliseconds).               *)
(*  - A Python dict is a sequence of entries in insertion order.           *)
(***************************************************************************)
EXTENDS Integers, Sequences, FiniteSets, TLC

(***************************************************************************)
(* Bounds of the model                                                     *)
(***************************************************************************)
MaxQueries == 3
MaxTime == 2
MaxLatency == 1
MaxCacheSize == 2
MaxTTL == 1

MaxPassages == 3
MaxThreads == 2
MaxTopK == 2
SimSteps == 4

(***************************************************************************)
(* Text                                                                    *)
(***************************************************************************)
SP == " "
None == <<"None">>

\* str.lower() on one token
lower_token(t) ==
    CASE t = "Revenue" -> "revenue"
      [] t = "Growth" -> "growth"
      [] t = "LVMH" -> "lvmh"
      [] OTHER -> t

\* str.lower()
lower(s) == [i \in 1..Len(s) |-> lower_token(s[i])]

RECURSIVE lstrip(_)
lstrip(s) == IF s # <<>> /\ Head(s) = SP THEN lstrip(Tail(s)) ELSE s

RECURSIVE rstrip(_)
rstrip(s) == IF s # <<>> /\ s[Len(s)] = SP THEN rstrip(SubSeq(s, 1, Len(s) - 1)) ELSE s

\* str.strip()
strip(s) == rstrip(lstrip(s))

\* str.split(): the set of positions holding a word, and the words
split(s) == SelectSeq(s, LAMBDA t : t # SP)

\* re.search(r"\d", s): tokens of the vocabulary that hold a digit
DigitTokens == {"2023", "2023:", "86,153", "13%", "5,000", "Revenue was 86,153 [Page 10]."}
has_digit(s) == \E i \in 1..Len(s) : s[i] \in DigitTokens

(***************************************************************************)
(* Numbers                                                                 *)
(***************************************************************************)
Unit == 1000000

Abs(x) == IF x < 0 THEN 0 - x ELSE x

Min(a, b) == IF a < b THEN a ELSE b

Max(a, b) == IF a > b THEN a ELSE b

\* round(num / den, 3) in units of 1e-3, ties to even as Python's round()
round3(num, den) ==
    LET q == (1000 * num) \div den
        r == (1000 * num) % den
    IN  IF 2 * r > den THEN q + 1
        ELSE IF 2 * r < den THEN q
        ELSE IF q % 2 = 0 THEN q ELSE q + 1

RECURSIVE SumSeq(_)
SumSeq(s) == IF s = <<>> THEN 0 ELSE Head(s) + SumSeq(Tail(s))

Range(s) == {s[i] : i \in 1..Len(s)}

\* s[:n] for n >= 0
Take(s, n) == SubSeq(s, 1, Min(n, Len(s)))

(***************************************************************************)
(* Config (src/src/config.py): the values the pipeline does not read from  *)
(* the model's state                                                       *)
(***************************************************************************)
top_k_retrieval == 10
top_k_final == 5

(***************************************************************************)
(* Documents of the index                                                  *)
(***************************************************************************)
\* metadata.is_none: the document carries no metadata (None); page "None": no page key
Doc(content, page, nums) ==
    [page_content |-> content,
     metadata |-> [is_none |-> FALSE, page |-> page, has_numbers |-> nums]]

DocNoMeta(content) ==
    [page_content |-> content,
     metadata |-> [is_none |-> TRUE, page |-> "None", has_numbers |-> FALSE]]

\* (doc.metadata or {})
meta_or_empty(doc) ==
    IF doc.metadata.is_none
    THEN [is_none |-> FALSE, page |-> "None", has_numbers |-> FALSE]
    ELSE doc.metadata

\* meta.get("page", "?")
page_or_unknown(meta) == IF meta.page = "None" THEN "?" ELSE meta.page

DocRevenue == Doc(<<"Revenue", SP, "2023:", SP, "86,153", SP, "million", SP, "euros.">>, "10", TRUE)
DocGrowth == Doc(<<"2023", SP, "growth", SP, "was", SP, "13%">>, "11", TRUE)
DocStores == Doc(<<"LVMH", SP, "has", SP, "5,000", SP, "stores">>, "49", TRUE)
DocWorld == Doc(<<"stores", SP, "worldwide">>, "49", FALSE)
DocBare == DocNoMeta(<<"Growth", SP, "worldwide">>)

\* what Chroma's similarity_search_with_score returns: (doc, distance in 1e-3)
ListEmpty == <<>>

(***************************************************************************)
(* Sorting: list.sort(key = score, reverse = True), which is stable        *)
(***************************************************************************)
sort_position(s, i) ==
    1 + Cardinality({j \in 1..Len(s) : s[j][2] > s[i][2]})
      + Cardinality({j \in 1..(i - 1) : s[j][2] = s[i][2]})

sort_desc(s) ==
    [p \in 1..Len(s) |-> s[CHOOSE i \in 1..Len(s) : sort_position(s, i) = p]]

(***************************************************************************)
(* VectorStore.search (src/src/vector_store.py)                            *)
(***************************************************************************)
\* db: <<>> when self.db is None, else <<the (doc, dist) list Chroma holds for the query>>
search(db, k) ==
    LET kk == IF k = 0 THEN top_k_retrieval ELSE k
        found == Take(db[1], kk)
        results_sim == [i \in 1..Len(found) |->
                          <<found[i][1], (Unit * 1000) \div (1000 + found[i][2])>>]
    IN  IF db = <<>>
        THEN [raises |-> TRUE, value |-> <<>>]
        ELSE [raises |-> FALSE, value |-> sort_desc(results_sim)]

(***************************************************************************)
(* Reranker.rerank (src/src/reranker.py)                                   *)
(***************************************************************************)
FinancialTokens == {"revenue", "sales", "million", "billion", "euros.", "eur"}

keyword_score(query, doc) ==
    LET query_words == Range(split(lower(query)))
        doc_words == Range(split(lower(doc.page_content)))
    IN  IF query_words # {}
        THEN (Unit * Cardinality(query_words \cap doc_words)) \div Cardinality(query_words)
        ELSE 0

length_score(doc) ==
    LET wc == Len(split(doc.page_content))
    IN  (Unit * 200) \div (200 + Abs(wc - 200))

financial_boost(doc) ==
    LET text == lower(doc.page_content)
    IN  (IF \E i \in 1..Len(text) : text[i] \in FinancialTokens THEN 150000 ELSE 0)
        + (IF doc.metadata.has_numbers THEN 100000 ELSE 0)

\* doc.metadata.get(...) raises AttributeError when the metadata is None
rerank_raises(docs_scores) ==
    \E i \in 1..Len(docs_scores) : docs_scores[i][1].metadata.is_none

\* variant: the financial boost is added without its weight
final_score_boost_unweighted(query, doc, sim_score) ==
    (6 * sim_score + 2 * keyword_score(query, doc)
       + 1 * length_score(doc)) \div 10 + financial_boost(doc)

final_score(query, doc, sim_score) ==
    (6 * sim_score + 2 * keyword_score(query, doc)
       + 1 * length_score(doc) + 1 * financial_boost(doc)) \div 10

\* variant: the rescored list is cut without being sorted
rerank_unsorted(query, docs_scores, top_k) ==
    LET rescored == [i \in 1..Len(docs_scores) |->
                       <<docs_scores[i][1],
                         final_score(query, docs_scores[i][1], docs_scores[i][2])>>]
    IN  IF rerank_raises(docs_scores)
        THEN [raises |-> TRUE, value |-> <<>>]
        ELSE [raises |-> FALSE, value |-> Take(rescored, top_k)]

rerank(query, docs_scores, top_k) ==
    LET rescored == [i \in 1..Len(docs_scores) |->
                       <<docs_scores[i][1],
                         final_score(query, docs_scores[i][1], docs_scores[i][2])>>]
    IN  IF rerank_raises(docs_scores)
        THEN [raises |-> TRUE, value |-> <<>>]
        ELSE [raises |-> FALSE, value |-> Take(sort_desc(rescored), top_k)]

(***************************************************************************)
(* LLMClient.generate (src/src/llm_client.py)                              *)
(***************************************************************************)
Fallback ==
    <<"The answer could not be generated due to a system error.", SP,
      "Please try again or refine the question.">>

\* what the model call can do: answer with some content, or fail while the
\* prompt is formatted or while the model is invoked
LLMOutcomes ==
    { [kind |-> "ok", content |-> <<"Revenue was 86,153 [Page 10].", SP>>],
      [kind |-> "format_error", content |-> <<>>],
      [kind |-> "invoke_error", content |-> <<>>] }

\* variant: no try/except around the prompt formatting and the model call
generate_no_except(context, question, llm) ==
    IF llm.kind = "ok"
    THEN [raises |-> FALSE, value |-> strip(llm.content)]
    ELSE [raises |-> TRUE, value |-> <<>>]

generate(context, question, llm) ==
    IF llm.kind = "ok"
    THEN [raises |-> FALSE, value |-> strip(llm.content)]
    ELSE [raises |-> FALSE, value |-> Fallback]

(***************************************************************************)
(* RAGPipeline._compute_confidence                                         *)
(***************************************************************************)
NoScore == 0 - 1

\* variant: HIGH only above 0.75
compute_level_above(score) ==
    IF score > 750 THEN "HIGH" ELSE IF score >= 500 THEN "MEDIUM" ELSE "LOW"

compute_level(score) ==
    IF score >= 750 THEN "HIGH" ELSE IF score >= 500 THEN "MEDIUM" ELSE "LOW"

\* variant: a top similarity of 0.55 or more adds 0.30
confidence_checks_low_bonus(docs_scores, answer) ==
    LET all == [i \in 1..Len(docs_scores) |-> docs_scores[i][2]]
        scores == SelectSeq(all, LAMBDA x : x # NoScore)
        top == CHOOSE x \in Range(scores) : \A y \in Range(scores) : y <= x
        has_numbers_answer == has_digit(answer)
        numeric_chunks == Cardinality({i \in 1..Len(docs_scores) :
                              meta_or_empty(docs_scores[i][1]).has_numbers})
        unique_pages == Cardinality({meta_or_empty(docs_scores[i][1]).page :
                              i \in 1..Len(docs_scores)})
        c1 == top * 100 >= 55 * Unit
        c2 == SumSeq(scores) * 100 >= 45 * Unit * Len(scores)
        c3 == unique_pages >= 2
        c4 == numeric_chunks >= 2
        pen == has_numbers_answer /\ numeric_chunks = 0
    IN  [score |-> (IF c1 THEN 300 ELSE 0) + (IF c2 THEN 200 ELSE 0)
                   + (IF c3 THEN 150 ELSE 0) + (IF c4 THEN 150 ELSE 0)
                   - (IF pen THEN 200 ELSE 0),
         reasons |-> (IF c1 THEN <<>> ELSE <<"LOW_TOP_SIMILARITY">>)
                     \o (IF c2 THEN <<>> ELSE <<"LOW_AVG_SIMILARITY">>)
                     \o (IF c3 THEN <<>> ELSE <<"SINGLE_PAGE_EVIDENCE">>)
                     \o (IF c4 THEN <<>> ELSE <<"LOW_NUMERIC_EVIDENCE">>)
                     \o (IF pen THEN <<"ANSWER_HAS_NUMBERS_WITHOUT_SUPPORT">> ELSE <<>>)]

\* the checks of _compute_confidence on passages with at least one score: the
\* score they add up to, before the clamp, in units of 1e-3, and the reasons
confidence_checks(docs_scores, answer) ==
    LET all == [i \in 1..Len(docs_scores) |-> docs_scores[i][2]]
        scores == SelectSeq(all, LAMBDA x : x # NoScore)
        top == CHOOSE x \in Range(scores) : \A y \in Range(scores) : y <= x
        has_numbers_answer == has_digit(answer)
        numeric_chunks == Cardinality({i \in 1..Len(docs_scores) :
                              meta_or_empty(docs_scores[i][1]).has_numbers})
        unique_pages == Cardinality({meta_or_empty(docs_scores[i][1]).page :
                              i \in 1..Len(docs_scores)})
        c1 == top * 100 >= 55 * Unit
        c2 == SumSeq(scores) * 100 >= 45 * Unit * Len(scores)
        c3 == unique_pages >= 2
        c4 == numeric_chunks >= 2
        pen == has_numbers_answer /\ numeric_chunks = 0
    IN  [score |-> (IF c1 THEN 400 ELSE 0) + (IF c2 THEN 200 ELSE 0)
                   + (IF c3 THEN 150 ELSE 0) + (IF c4 THEN 150 ELSE 0)
                   - (IF pen THEN 200 ELSE 0),
         reasons |-> (IF c1 THEN <<>> ELSE <<"LOW_TOP_SIMILARITY">>)
                     \o (IF c2 THEN <<>> ELSE <<"LOW_AVG_SIMILARITY">>)
                     \o (IF c3 THEN <<>> ELSE <<"SINGLE_PAGE_EVIDENCE">>)
                     \o (IF c4 THEN <<>> ELSE <<"LOW_NUMERIC_EVIDENCE">>)
                     \o (IF pen THEN <<"ANSWER_HAS_NUMBERS_WITHOUT_SUPPORT">> ELSE <<>>)]

\* score and thresholds of the result in units of 1e-3
_compute_confidence(docs_scores, answer) ==
    LET all == [i \in 1..Len(docs_scores) |-> docs_scores[i][2]]
        scores == SelectSeq(all, LAMBDA x : x # NoScore)
        checks == confidence_checks(docs_scores, answer)
        clamped == Max(0, Min(1000, checks.score))
    IN  IF docs_scores = <<>>
        THEN [level |-> "LOW", score |-> 0, reasons |-> <<"NO_SOURCES">>]
        ELSE IF scores = <<>>
        THEN [level |-> "LOW", score |-> 0, reasons |-> <<"NO_SCORES">>]
        ELSE [level |-> compute_level(clamped), score |-> clamped,
              reasons |-> checks.reasons]

(***************************************************************************)
(* RAGPipeline._build_evidence, _build_context, _format_sources            *)
(***************************************************************************)
\* variant: no limit of max_items on the evidence
_build_evidence_unlimited(docs_scores) ==
    [i \in 1..Len(docs_scores) |->
       [page |-> page_or_unknown(meta_or_empty(docs_scores[i][1])),
        score |-> round3(docs_scores[i][2], Unit),
        snippet |-> strip(docs_scores[i][1].page_content)]]

\* the documents of the model are shorter than 150 characters, so the
\* slices [:150] and [:240] of page_content keep the whole text
_build_evidence(docs_scores) ==
    LET first == Take(docs_scores, 3)
    IN  [i \in 1..Len(first) |->
           [page |-> page_or_unknown(meta_or_empty(first[i][1])),
            score |-> round3(first[i][2], Unit),
            snippet |-> strip(first[i][1].page_content)]]

_build_context(docs_scores) ==
    [i \in 1..Len(docs_scores) |->
       [page |-> page_or_unknown(meta_or_empty(docs_scores[i][1])),
        score |-> (round3(docs_scores[i][2], Unit * 10)),
        text |-> docs_scores[i][1].page_content]]

_format_sources(docs_scores) ==
    [i \in 1..Len(docs_scores) |->
       [page |-> page_or_unknown(meta_or_empty(docs_scores[i][1])),
        score |-> round3(docs_scores[i][2], Unit),
        preview |-> Append(docs_scores[i][1].page_content, "...")]]

(***************************************************************************)
(* State                                                                   *)
(***************************************************************************)
VARIABLES
    cache,          \* self.cache: entries [key, value, ts] in dict order
    metrics,        \* self.metrics
    now,            \* the clock read by datetime.now()
    config,         \* Config.enable_cache, Config.cache_ttl, Config.cache_max_size
    last,           \* the last call: its arguments and its outcome
    hist,           \* history: calls of query made, returned from the cache,
                    \* returned not from the cache, and raised
    memo,           \* history: per normalized question, the answer, the time and
                    \* the result of the call that stored the entry the cache
                    \* holds for it
    report,         \* what get_metrics returned, <<>> once query was called again
    threads         \* per request handler thread of the API: where its call of
                    \* query stands and the locals of the call

vars == <<cache, metrics, now, config, last, hist, memo, report, threads>>

(***************************************************************************)
(* Cache (RAGPipeline._get_cache_key, _get_cache, _set_cache)              *)
(***************************************************************************)
\* hashlib.md5(...).hexdigest(): a digest that is injective on the questions
\* of the model
md5_hexdigest(s) == <<"md5">> \o s

\* variant: the key keeps the case of the question
_get_cache_key_keeps_case(question) == md5_hexdigest(strip(question))

_get_cache_key(question) == md5_hexdigest(strip(lower(question)))

\* position of key in the dict c, 0 when absent
index_of(c, key) ==
    IF \E i \in 1..Len(c) : c[i].key = key
    THEN CHOOSE i \in 1..Len(c) : c[i].key = key
    ELSE 0

\* del c[key] for the entry at position i
del_at(c, i) == SubSeq(c, 1, i - 1) \o SubSeq(c, i + 1, Len(c))

\* variant: no expiry check
_get_cache_never_expires(c, question, t, cache_ttl) ==
    LET key == _get_cache_key(question)
        i == index_of(c, key)
    IN  IF i = 0
        THEN [cached |-> <<>>, cache |-> c]
        ELSE [cached |-> <<c[i].value>>, cache |-> c]

\* variant: a hit renews the insertion time of the entry
_get_cache_renews(c, question, t, cache_ttl) ==
    LET key == _get_cache_key(question)
        i == index_of(c, key)
    IN  IF i = 0
        THEN [cached |-> <<>>, cache |-> c]
        ELSE IF t - c[i].ts > cache_ttl
        THEN [cached |-> <<>>, cache |-> del_at(c, i)]
        ELSE [cached |-> <<c[i].value>>, cache |-> [c EXCEPT ![i].ts = t]]

\* variant: a read removes every entry that outlived the TTL
_get_cache_sweeps(c, question, t, cache_ttl) ==
    LET key == _get_cache_key(question)
        live == SelectSeq(c, LAMBDA e : t - e.ts <= cache_ttl)
        i == index_of(live, key)
    IN  IF i = 0
        THEN [cached |-> <<>>, cache |-> live]
        ELSE [cached |-> <<live[i].value>>, cache |-> live]

\* cached: <<>> for None, else <<the stored result>>; cache: self.cache afterwards
_get_cache(c, question, t, cache_ttl) ==
    LET key == _get_cache_key(question)
        i == index_of(c, key)
    IN  IF i = 0
        THEN [cached |-> <<>>, cache |-> c]
        ELSE IF t - c[i].ts > cache_ttl
        THEN [cached |-> <<>>, cache |-> del_at(c, i)]
        ELSE [cached |-> <<c[i].value>>, cache |-> c]

\* variant: max(self.cache, key = ts)
newest_index(c) ==
    CHOOSE i \in 1..Len(c) :
        /\ \A j \in 1..Len(c) : c[i].ts >= c[j].ts
        /\ \A j \in 1..(i - 1) : c[j].ts < c[i].ts

\* min(self.cache, key = ts): the first entry, in dict order, of least ts
oldest_index(c) ==
    CHOOSE i \in 1..Len(c) :
        /\ \A j \in 1..Len(c) : c[i].ts <= c[j].ts
        /\ \A j \in 1..(i - 1) : c[j].ts > c[i].ts

\* variant: no eviction at capacity
_set_cache_no_evict(c, question, result, t, cache_max_size) ==
    LET key == _get_cache_key(question)
        i == index_of(c, key)
        entry == [key |-> key, value |-> result, ts |-> t]
    IN  IF i = 0 THEN Append(c, entry) ELSE [c EXCEPT ![i] = entry]

_set_cache(c, question, result, t, cache_max_size) ==
    LET key == _get_cache_key(question)
        c1 == IF Len(c) >= cache_max_size THEN del_at(c, oldest_index(c)) ELSE c
        i == index_of(c1, key)
        entry == [key |-> key, value |-> result, ts |-> t]
    IN  IF i = 0 THEN Append(c1, entry) ELSE [c1 EXCEPT ![i] = entry]

(***************************************************************************)
(* RAGPipeline._finalize                                                   *)
(***************************************************************************)
isoformat(t) == [iso |-> t]

\* variant: the cache write ignores allow_cache_write
_finalize_ignores_allow(m, c, cfg, question, answer, docs_scores, latency_ms, t, from_cache, allow_cache_write) ==
    LET m1 == [m EXCEPT !.total_latency_ms_e2e = @ + latency_ms]
        m2 == IF ~from_cache
              THEN [m1 EXCEPT !.uncached_queries = @ + 1,
                              !.total_latency_ms_uncached = @ + latency_ms]
              ELSE m1
        result == [answer |-> answer,
                   sources |-> _format_sources(docs_scores),
                   evidence |-> _build_evidence(docs_scores),
                   confidence |-> _compute_confidence(docs_scores, answer),
                   latency_ms |-> latency_ms,
                   from_cache |-> from_cache,
                   timestamp |-> isoformat(t)]
        c1 == IF ~from_cache
              THEN _set_cache(c, question, result, t, cfg.cache_max_size)
              ELSE c
    IN  [metrics |-> m2, cache |-> c1, raises |-> FALSE, result |-> <<result>>, path |-> "finalize"]

\* variant: the uncached counters count only calls that retrieved passages
_finalize_skips_uncached(m, c, cfg, question, answer, docs_scores, latency_ms, t, from_cache, allow_cache_write) ==
    LET m1 == [m EXCEPT !.total_latency_ms_e2e = @ + latency_ms]
        m2 == IF ~from_cache /\ docs_scores # <<>>
              THEN [m1 EXCEPT !.uncached_queries = @ + 1,
                              !.total_latency_ms_uncached = @ + latency_ms]
              ELSE m1
        result == [answer |-> answer,
                   sources |-> _format_sources(docs_scores),
                   evidence |-> _build_evidence(docs_scores),
                   confidence |-> _compute_confidence(docs_scores, answer),
                   latency_ms |-> latency_ms,
                   from_cache |-> from_cache,
                   timestamp |-> isoformat(t)]
        c1 == IF allow_cache_write /\ ~from_cache
              THEN _set_cache(c, question, result, t, cfg.cache_max_size)
              ELSE c
    IN  [metrics |-> m2, cache |-> c1, raises |-> FALSE, result |-> <<result>>, path |-> "finalize"]

\* variant: a result without passages is never written to the cache
_finalize_skips_empty_write(m, c, cfg, question, answer, docs_scores, latency_ms, t, from_cache, allow_cache_write) ==
    LET m1 == [m EXCEPT !.total_latency_ms_e2e = @ + latency_ms]
        m2 == IF ~from_cache
              THEN [m1 EXCEPT !.uncached_queries = @ + 1,
                              !.total_latency_ms_uncached = @ + latency_ms]
              ELSE m1
        result == [answer |-> answer,
                   sources |-> _format_sources(docs_scores),
                   evidence |-> _build_evidence(docs_scores),
                   confidence |-> _compute_confidence(docs_scores, answer),
                   latency_ms |-> latency_ms,
                   from_cache |-> from_cache,
                   timestamp |-> isoformat(t)]
        c1 == IF allow_cache_write /\ ~from_cache /\ docs_scores # <<>>
              THEN _set_cache(c, question, result, t, cfg.cache_max_size)
              ELSE c
    IN  [metrics |-> m2, cache |-> c1, raises |-> FALSE, result |-> <<result>>, path |-> "finalize"]

\* m, c: self.metrics and self.cache before; the record holds them afterwards
_finalize(m, c, cfg, question, answer, docs_scores, latency_ms, t, from_cache, allow_cache_write) ==
    LET m1 == [m EXCEPT !.total_latency_ms_e2e = @ + latency_ms]
        m2 == IF ~from_cache
              THEN [m1 EXCEPT !.uncached_queries = @ + 1,
                              !.total_latency_ms_uncached = @ + latency_ms]
              ELSE m1
        result == [answer |-> answer,
                   sources |-> _format_sources(docs_scores),
                   evidence |-> _build_evidence(docs_scores),
                   confidence |-> _compute_confidence(docs_scores, answer),
                   latency_ms |-> latency_ms,
                   from_cache |-> from_cache,
                   timestamp |-> isoformat(t)]
        c1 == IF allow_cache_write /\ ~from_cache
              THEN _set_cache(c, question, result, t, cfg.cache_max_size)
              ELSE c
    IN  [metrics |-> m2, cache |-> c1, raises |-> FALSE, result |-> <<result>>, path |-> "finalize"]

(***************************************************************************)
(* RAGPipeline.query                                                       *)
(***************************************************************************)
EmptyAnswer == <<"Empty question.">>
NoInfoAnswer == <<"No relevant information found in the document.">>

\* variant: the stored result is returned without from_cache = True
query_cache_hit_keeps_flag(m, c, cached, latency_ms, t) ==
    [metrics |-> [m EXCEPT !.cache_hits = @ + 1,
                           !.total_latency_ms_e2e = @ + latency_ms],
     cache |-> c,
     raises |-> FALSE,
     result |-> << [cached EXCEPT !.latency_ms = latency_ms,
                                  !.timestamp = isoformat(t)] >>,
     path |-> "hit"]

\* variant: a hit is also counted as an uncached query
query_cache_hit_counts_uncached(m, c, cached, latency_ms, t) ==
    [metrics |-> [m EXCEPT !.cache_hits = @ + 1,
                           !.total_latency_ms_e2e = @ + latency_ms,
                           !.uncached_queries = @ + 1,
                           !.total_latency_ms_uncached = @ + latency_ms],
     cache |-> c,
     raises |-> FALSE,
     result |-> << [cached EXCEPT !.from_cache = TRUE,
                                  !.latency_ms = latency_ms,
                                  !.timestamp = isoformat(t)] >>,
     path |-> "hit"]

\* variant: the hit stamps the stored dict itself instead of a copy of it
query_cache_hit_in_place(m, c, cached, latency_ms, t) ==
    LET result == [cached EXCEPT !.from_cache = TRUE,
                                 !.latency_ms = latency_ms,
                                 !.timestamp = isoformat(t)]
    IN  [metrics |-> [m EXCEPT !.cache_hits = @ + 1,
                               !.total_latency_ms_e2e = @ + latency_ms],
         cache |-> [i \in 1..Len(c) |->
                      IF c[i].value = cached THEN [c[i] EXCEPT !.value = result] ELSE c[i]],
         raises |-> FALSE,
         result |-> <<result>>,
         path |-> "hit"]

\* variant: a hit adds nothing to cache_hits
query_cache_hit_uncounted(m, c, cached, latency_ms, t) ==
    [metrics |-> [m EXCEPT !.total_latency_ms_e2e = @ + latency_ms],
     cache |-> c,
     raises |-> FALSE,
     result |-> << [cached EXCEPT !.from_cache = TRUE,
                                  !.latency_ms = latency_ms,
                                  !.timestamp = isoformat(t)] >>,
     path |-> "hit"]

\* the branch of query taken when _get_cache returned an entry
query_cache_hit(m, c, cached, latency_ms, t) ==
    [metrics |-> [m EXCEPT !.cache_hits = @ + 1,
                           !.total_latency_ms_e2e = @ + latency_ms],
     cache |-> c,
     raises |-> FALSE,
     result |-> << [cached EXCEPT !.from_cache = TRUE,
                                  !.latency_ms = latency_ms,
                                  !.timestamp = isoformat(t)] >>,
     path |-> "hit"]

\* the outcome of a call of query: what _finalize or the hit branch left, the
\* collaborators the call invoked, in order, and what search returned to it
\* (<<>> when search was not called or raised)
observed(out, path, calls, retrieved) ==
    [metrics |-> out.metrics, cache |-> out.cache, raises |-> out.raises,
     result |-> out.result, path |-> path, calls |-> calls, retrieved |-> retrieved]

\* the outcome of a call of query that raised with self.metrics = m, self.cache = c
raised(m, c, path, calls, retrieved) ==
    [metrics |-> m, cache |-> c, raises |-> TRUE, result |-> <<>>,
     path |-> path, calls |-> calls, retrieved |-> retrieved]

\* variant: without the reranker every retrieved passage is kept
keep_retrieved(docs_scores) == docs_scores

\* docs_scores[: int(Config.top_k_final)]
first_top_k_final(docs_scores) == Take(docs_scores, top_k_final)

\* variant: the cache is read and written whatever use_cache is
query_ignores_use_cache(m, c, cfg, t, question, top_k, use_cache, use_rerank, env) ==
    LET m0 == [m EXCEPT !.total_queries = @ + 1]
        question_clean == strip(IF question = None THEN <<>> ELSE question)
        reading == cfg.enable_cache
        got == IF reading
               THEN _get_cache(c, question_clean, t, cfg.cache_ttl)
               ELSE [cached |-> <<>>, cache |-> c]
        k == IF top_k # <<>> THEN top_k[1] ELSE top_k_retrieval
        found == search(env.db, k)
        ranked == IF use_rerank
                  THEN rerank(question_clean, found.value, top_k_final)
                  ELSE [raises |-> FALSE, value |-> first_top_k_final(found.value)]
        ranking == IF use_rerank THEN <<"rerank">> ELSE <<>>
        context == _build_context(ranked.value)
        answer == generate(context, question_clean, env.llm)
    IN  IF question_clean = <<>>
        THEN observed(_finalize(m0, c, cfg, <<>>, EmptyAnswer, <<>>, env.latency,
                                t, FALSE, FALSE),
                      "empty", <<>>, <<>>)
        ELSE IF got.cached # <<>>
        THEN observed(query_cache_hit(m0, got.cache, got.cached[1], env.latency, t),
                      "hit", <<>>, <<>>)
        ELSE IF found.raises
        THEN raised(m0, got.cache, "search_raised", <<"search">>, <<>>)
        ELSE IF found.value = <<>>
        THEN observed(_finalize(m0, got.cache, cfg, question_clean, NoInfoAnswer, <<>>,
                                env.latency, t, FALSE, reading),
                      "no_docs", <<"search">>, <<found.value>>)
        ELSE IF ranked.raises
        THEN raised(m0, got.cache, "rerank_raised", <<"search">> \o ranking,
                    <<found.value>>)
        ELSE IF answer.raises
        THEN raised(m0, got.cache, "generate_raised",
                    <<"search">> \o ranking \o <<"generate">>, <<found.value>>)
        ELSE observed(_finalize(m0, got.cache, cfg, question_clean, answer.value,
                                ranked.value, env.latency, t, FALSE, reading),
                      "full", <<"search">> \o ranking \o <<"generate">>, <<found.value>>)

\* variant: a hit returns the first top_k of the stored sources
query_hit_cut_to_top_k(m, c, cfg, t, question, top_k, use_cache, use_rerank, env) ==
    LET m0 == [m EXCEPT !.total_queries = @ + 1]
        question_clean == strip(IF question = None THEN <<>> ELSE question)
        reading == use_cache /\ cfg.enable_cache
        got == IF reading
               THEN _get_cache(c, question_clean, t, cfg.cache_ttl)
               ELSE [cached |-> <<>>, cache |-> c]
        k == IF top_k # <<>> THEN top_k[1] ELSE top_k_retrieval
        found == search(env.db, k)
        ranked == IF use_rerank
                  THEN rerank(question_clean, found.value, top_k_final)
                  ELSE [raises |-> FALSE, value |-> first_top_k_final(found.value)]
        ranking == IF use_rerank THEN <<"rerank">> ELSE <<>>
        context == _build_context(ranked.value)
        answer == generate(context, question_clean, env.llm)
    IN  IF question_clean = <<>>
        THEN observed(_finalize(m0, c, cfg, <<>>, EmptyAnswer, <<>>, env.latency,
                                t, FALSE, FALSE),
                      "empty", <<>>, <<>>)
        ELSE IF got.cached # <<>>
        THEN observed(query_cache_hit(m0, got.cache,
                                      [got.cached[1] EXCEPT !.sources = Take(@, k)],
                                      env.latency, t),
                      "hit", <<>>, <<>>)
        ELSE IF found.raises
        THEN raised(m0, got.cache, "search_raised", <<"search">>, <<>>)
        ELSE IF found.value = <<>>
        THEN observed(_finalize(m0, got.cache, cfg, question_clean, NoInfoAnswer, <<>>,
                                env.latency, t, FALSE, reading),
                      "no_docs", <<"search">>, <<found.value>>)
        ELSE IF ranked.raises
        THEN raised(m0, got.cache, "rerank_raised", <<"search">> \o ranking,
                    <<found.value>>)
        ELSE IF answer.raises
        THEN raised(m0, got.cache, "generate_raised",
                    <<"search">> \o ranking \o <<"generate">>, <<found.value>>)
        ELSE observed(_finalize(m0, got.cache, cfg, question_clean, answer.value,
                                ranked.value, env.latency, t, FALSE, reading),
                      "full", <<"search">> \o ranking \o <<"generate">>, <<found.value>>)

\* question: a str or None; top_k: <<>> for None, else <<k>>
\* env: what the collaborators and the clocks do during the call
\*   db       the index (see search)         llm   the model call (see generate)
\*   latency  time.time() - start, in ms
\* t: datetime.now() during the call
query(m, c, cfg, t, question, top_k, use_cache, use_rerank, env) ==
    LET m0 == [m EXCEPT !.total_queries = @ + 1]
        question_clean == strip(IF question = None THEN <<>> ELSE question)
        reading == use_cache /\ cfg.enable_cache
        got == IF reading
               THEN _get_cache(c, question_clean, t, cfg.cache_ttl)
               ELSE [cached |-> <<>>, cache |-> c]
        k == IF top_k # <<>> THEN top_k[1] ELSE top_k_retrieval
        found == search(env.db, k)
        ranked == IF use_rerank
                  THEN rerank(question_clean, found.value, top_k_final)
                  ELSE [raises |-> FALSE, value |-> first_top_k_final(found.value)]
        ranking == IF use_rerank THEN <<"rerank">> ELSE <<>>
        context == _build_context(ranked.value)
        answer == generate(context, question_clean, env.llm)
    IN  IF question_clean = <<>>
        THEN observed(_finalize(m0, c, cfg, <<>>, EmptyAnswer, <<>>, env.latency,
                                t, FALSE, FALSE),
                      "empty", <<>>, <<>>)
        ELSE IF got.cached # <<>>
        THEN observed(query_cache_hit(m0, got.cache, got.cached[1], env.latency, t),
                      "hit", <<>>, <<>>)
        ELSE IF found.raises
        THEN raised(m0, got.cache, "search_raised", <<"search">>, <<>>)
        ELSE IF found.value = <<>>
        THEN observed(_finalize(m0, got.cache, cfg, question_clean, NoInfoAnswer, <<>>,
                                env.latency, t, FALSE, reading),
                      "no_docs", <<"search">>, <<found.value>>)
        ELSE IF ranked.raises
        THEN raised(m0, got.cache, "rerank_raised", <<"search">> \o ranking,
                    <<found.value>>)
        ELSE IF answer.raises
        THEN raised(m0, got.cache, "generate_raised",
                    <<"search">> \o ranking \o <<"generate">>, <<found.value>>)
        ELSE observed(_finalize(m0, got.cache, cfg, question_clean, answer.value,
                                ranked.value, env.latency, t, FALSE, reading),
                      "full", <<"search">> \o ranking \o <<"generate">>, <<found.value>>)

(***************************************************************************)
(* RAGPipeline.get_metrics                                                 *)
(***************************************************************************)
\* variant: the hit rate is taken over the uncached queries
get_metrics_wrong_denominator(m, c) ==
    LET tq == m.total_queries
        uq == m.uncached_queries
    IN  [total_queries |-> tq,
         cache_hits |-> m.cache_hits,
         cache_hit_rate |-> IF uq # 0 THEN round3(m.cache_hits, uq) ELSE 0,
         avg_latency_e2e_ms |->
             IF tq # 0 THEN <<round3(m.total_latency_ms_e2e, 10 * tq)>> ELSE <<>>,
         avg_latency_uncached_ms |->
             IF uq # 0 THEN <<round3(m.total_latency_ms_uncached, 10 * uq)>> ELSE <<>>,
         cache_size |-> Len(c),
         db_stats |-> <<"stats">>]

\* rates and averages in units of 1e-3 and 1e-2; <<>> is None; db_stats is
\* what VectorStore.stats() returns, passed through
get_metrics(m, c) ==
    LET tq == m.total_queries
        uq == m.uncached_queries
    IN  [total_queries |-> tq,
         cache_hits |-> m.cache_hits,
         cache_hit_rate |-> IF tq # 0 THEN round3(m.cache_hits, tq) ELSE 0,
         avg_latency_e2e_ms |->
             IF tq # 0 THEN <<round3(m.total_latency_ms_e2e, 10 * tq)>> ELSE <<>>,
         avg_latency_uncached_ms |->
             IF uq # 0 THEN <<round3(m.total_latency_ms_uncached, 10 * uq)>> ELSE <<>>,
         cache_size |-> Len(c),
         db_stats |-> <<"stats">>]

(***************************************************************************)
(* The calls the model makes                                               *)
(***************************************************************************)
Questions ==
    { None, <<SP>>, <<"revenue">>, <<SP, "Revenue">>, <<"growth">>, <<"stores">> }

\* lower(strip(question or "")) of the questions: the texts the cache keys hash
Normalized == { <<>>, <<"revenue">>, <<"growth">>, <<"stores">> }

normalize(question) == lower(strip(IF question = None THEN <<>> ELSE question))

ListRevenue == << <<DocRevenue, 111>>, <<DocGrowth, 176>>, <<DocStores, 250>> >>
ListBare == << <<DocBare, 429>> >>

ListFour == ListRevenue \o << <<DocWorld, 429>> >>
ListFive == ListFour \o << <<DocBare, 500>> >>
ListSix == ListFour \o << <<DocGrowth, 500>>, <<DocStores, 600>> >>

Latencies == 0..MaxLatency

\* the environments of the calls that exercise the cache: the index answers,
\* the model call answers or fails
EnvsCache ==
    [db : {<<ListRevenue>>}, llm : LLMOutcomes, latency : {1}]

\* the environments of the calls that exercise the metrics: the index is not
\* loaded, finds nothing, finds documents, or finds a document the reranker
\* cannot read; the call takes any latency
EnvsMetrics ==
    [db : {<<>>, <<ListEmpty>>, <<ListRevenue>>, <<ListBare>>},
     llm : {[kind |-> "ok", content |-> <<"Revenue was 86,153 [Page 10].", SP>>]},
     latency : Latencies]

\* the environments of the calls that exercise the retrieval: the index finds
\* nothing, four documents, five documents the last of which the reranker
\* cannot read, or six documents
EnvsRetrieval ==
    [db : {<<ListEmpty>>, <<ListFour>>, <<ListFive>>, <<ListSix>>},
     llm : {[kind |-> "ok", content |-> <<"Revenue was 86,153 [Page 10].", SP>>]},
     latency : {1}]

\* the environments of the calls that exercise the cache keys and the stored
\* payload: the index and the model answer, the call takes any latency
EnvsKeys ==
    [db : {<<ListRevenue>>},
     llm : {[kind |-> "ok", content |-> <<"Revenue was 86,153 [Page 10].", SP>>]},
     latency : Latencies]

\* the questions of a first call, and the same questions spelled otherwise
Asked == { <<"revenue">>, <<"growth">> }
AskedAgain == { <<SP, "Revenue", SP>>, <<"Growth">> }

\* the threads of the API's pool that run the handler of /query, and a thread
\* that runs no call: pc is the statement of query or _finalize the thread is
\* about to execute, tmp the value it read for the counter it is adding to
Threads == 1..MaxThreads

IdleThread == [pc |-> "idle", use_cache |-> FALSE, tmp |-> 0, hit |-> FALSE]

\* last: question is the normalized question of the call; pre_len the number
\* of cache entries when the call began; age the time since the entry of the
\* question was stored, <<>> without such an entry; llm what the model call
\* did, "none" when the call did not reach it; calls and retrieved as query
\* reports them; top_k and use_rerank the arguments of the call
NoCall ==
    [question |-> <<>>, use_cache |-> FALSE, pre_len |-> 0, age |-> <<>>,
     llm |-> "none", raises |-> FALSE, path |-> "none", result |-> <<>>,
     calls |-> <<>>, retrieved |-> <<>>, top_k |-> <<>>, use_rerank |-> TRUE]

(***************************************************************************)
(* Initial state: RAGPipeline.__init__                                     *)
(***************************************************************************)
Init ==
    /\ cache = <<>>
    /\ metrics = [total_queries |-> 0, cache_hits |-> 0, total_latency_ms_e2e |-> 0,
                  total_latency_ms_uncached |-> 0, uncached_queries |-> 0]
    /\ now = 0
    /\ config \in [enable_cache : BOOLEAN, cache_ttl : 1..MaxTTL,
                   cache_max_size : 1..MaxCacheSize]
    /\ last = NoCall
    /\ hist = [calls |-> 0, from_cache |-> 0, not_from_cache |-> 0, raised |-> 0]
    /\ memo = [k \in Normalized |-> <<>>]
    /\ report = <<>>
    /\ threads = [t \in Threads |-> IdleThread]

(***************************************************************************)
(* Actions                                                                 *)
(***************************************************************************)
\* one call of RAGPipeline.query, from its first line to its return or raise,
\* with its arguments and environment drawn from the given sets
QueryOver(Qs, Ks, UCs, URs, Es) ==
  /\ hist.calls < MaxQueries
  /\ \E question \in Qs, top_k \in Ks, use_cache \in UCs, use_rerank \in URs, env \in Es :
      \E out \in {query(metrics, cache, config, now, question, top_k,
                        use_cache, use_rerank, env)} :
        LET k == normalize(question)
            hit == IF out.raises THEN FALSE ELSE out.result[1].from_cache
            stored == /\ ~out.raises /\ ~hit /\ k # <<>>
                      /\ use_cache /\ config.enable_cache
        IN  /\ metrics' = out.metrics
            /\ cache' = out.cache
            /\ last' = [question |-> k, use_cache |-> use_cache,
                        pre_len |-> Len(cache),
                        age |-> IF memo[k] = <<>> THEN <<>> ELSE <<now - memo[k][1].t>>,
                        llm |-> IF out.path \in {"full", "generate_raised"}
                                THEN env.llm.kind ELSE "none",
                        raises |-> out.raises, path |-> out.path, result |-> out.result,
                        calls |-> out.calls, retrieved |-> out.retrieved,
                        top_k |-> top_k, use_rerank |-> use_rerank]
            /\ hist' = [calls |-> hist.calls + 1,
                        from_cache |-> hist.from_cache + (IF hit THEN 1 ELSE 0),
                        not_from_cache |-> hist.not_from_cache
                                             + (IF ~out.raises /\ ~hit THEN 1 ELSE 0),
                        raised |-> hist.raised + (IF out.raises THEN 1 ELSE 0)]
            /\ memo' = [x \in Normalized |->
                          IF x = k /\ stored
                          THEN <<[answer |-> out.result[1].answer, t |-> now,
                                  result |-> out.result[1],
                                  top_k |-> top_k, use_rerank |-> use_rerank]>>
                          ELSE IF index_of(out.cache, md5_hexdigest(x)) = 0
                          THEN <<>>
                          ELSE memo[x]]
            /\ report' = <<>>
            /\ UNCHANGED <<now, config, threads>>

Query == QueryOver(Questions, {<<>>}, BOOLEAN, {TRUE}, EnvsCache)

QueryMetrics ==
    QueryOver({<<SP>>, <<"revenue">>, <<"growth">>}, {<<>>}, BOOLEAN, {TRUE}, EnvsMetrics)

\* one call of RAGPipeline.get_metrics
GetMetrics ==
    /\ report = <<>>
    /\ report' = <<get_metrics(metrics, cache)>>
    /\ last' = [NoCall EXCEPT !.path = "get_metrics"]
    /\ UNCHANGED <<cache, metrics, now, config, hist, memo, threads>>

\* time passes between two calls
Tick ==
    /\ now < MaxTime
    /\ now' = now + 1
    /\ UNCHANGED <<cache, metrics, config, last, hist, memo, report, threads>>

Next == Query \/ GetMetrics \/ Tick

Spec == Init /\ [][Next]_vars

NextMetrics == QueryMetrics \/ GetMetrics

SpecMetrics == Init /\ [][NextMetrics]_vars

\* the calls that exercise the retrieval: one question, top_k given or not,
\* with and without the cache and the reranker
QueryRetrieval ==
    QueryOver({<<"revenue">>}, {<<>>, <<2>>}, BOOLEAN, BOOLEAN, EnvsRetrieval)

NextRetrieval == QueryRetrieval \/ GetMetrics

SpecRetrieval == Init /\ [][NextRetrieval]_vars

\* a first call asks a question in lower case; the later calls ask the
\* questions again in another spelling
Ask ==
    /\ hist.calls = 0
    /\ QueryOver(Asked, {<<>>}, {TRUE}, {TRUE}, EnvsKeys)

AskAgain ==
    /\ hist.calls > 0
    /\ QueryOver(AskedAgain, {<<>>}, {TRUE}, {TRUE}, EnvsKeys)

NextKeys == Ask \/ AskAgain \/ Tick

SpecKeys == Init /\ [][NextKeys]_vars

\* the environments of the calls that exercise the expiry and the eviction:
\* the index is not loaded, finds nothing, or finds documents
EnvsExpiry ==
    [db : {<<>>, <<ListEmpty>>, <<ListRevenue>>},
     llm : {[kind |-> "ok", content |-> <<"Revenue was 86,153 [Page 10].", SP>>]},
     latency : {1}]

\* the calls that exercise the expiry and the eviction: an empty question and
\* two questions, with and without the cache
QueryExpiry ==
    QueryOver({<<SP>>, <<"revenue">>, <<"growth">>}, {<<>>}, BOOLEAN, {TRUE}, EnvsExpiry)

NextExpiry == QueryExpiry \/ GetMetrics \/ Tick

SpecExpiry == Init /\ [][NextExpiry]_vars

\* the normalized questions whose cache entry shares its sources list, its
\* evidence list and its confidence dict with the result the call l returned:
\* _set_cache stores result.copy() and a hit returns dict(cached), both
\* shallow copies
aliased(l) ==
    IF /\ l.path \notin {"none", "get_metrics"} /\ ~l.raises /\ l.question # <<>>
       /\ (l.path = "hit" \/ (l.use_cache /\ config.enable_cache))
    THEN {l.question}
    ELSE {}

Tampered == <<"tampered">>

\* the caller changes the result the last call returned to it: it assigns
\* result["answer"], or clears result["sources"] or result["evidence"] in
\* place, or assigns result["confidence"]["level"]
CallerMutates ==
    /\ last.path \notin {"none", "get_metrics"} /\ ~last.raises
    /\ \E field \in {"answer", "sources", "evidence", "confidence"} :
        LET r == last.result[1]
            r2 == CASE field = "answer" -> [r EXCEPT !.answer = Tampered]
                    [] field = "sources" -> [r EXCEPT !.sources = <<>>]
                    [] field = "evidence" -> [r EXCEPT !.evidence = <<>>]
                    [] OTHER -> [r EXCEPT !.confidence.level = "TAMPERED"]
            keys == {_get_cache_key(q) : q \in aliased(last)}
        IN  /\ r2 # r
            /\ last' = [last EXCEPT !.result = <<r2>>]
            /\ cache' = [i \in 1..Len(cache) |->
                           IF cache[i].key \in keys
                           THEN [cache[i] EXCEPT !.value.sources = r2.sources,
                                                 !.value.evidence = r2.evidence,
                                                 !.value.confidence = r2.confidence]
                           ELSE cache[i]]
    /\ UNCHANGED <<metrics, now, config, hist, memo, report, threads>>

NextCallers == Ask \/ AskAgain \/ Tick \/ CallerMutates

SpecCallers == Init /\ [][NextCallers]_vars

(***************************************************************************)
(* Concurrent calls of query on the one instance of the API                *)
(* (src/api/app.py: rag = RAGPipeline(); def query runs in a pool thread). *)
(* RAGPipeline takes no lock.  An augmented assignment                     *)
(* self.metrics[k] += v reads self.metrics[k] and then stores the sum:     *)
(* another thread may run between the two.  The reads and writes of the    *)
(* cache are taken one method call at a time here.  Every call asks        *)
(* "revenue" and takes 1 ms; the index and the model answer.               *)
(***************************************************************************)
ThreadQuestion == <<"revenue">>

ThreadEnv ==
    [db |-> <<ListRevenue>>,
     llm |-> [kind |-> "ok", content |-> <<"Revenue was 86,153 [Page 10].", SP>>],
     latency |-> 1]

\* thread t moves to pc with its locals changed as given
Goto(t, pc, tmp, hit) ==
    threads' = [threads EXCEPT ![t] = [@ EXCEPT !.pc = pc, !.tmp = tmp, !.hit = hit]]

\* the handler calls rag.query(question, use_cache = ...)
TStart(t) ==
    /\ threads[t].pc = "idle"
    /\ \E use_cache \in BOOLEAN :
         threads' = [threads EXCEPT ![t] = [pc |-> "load_total", use_cache |-> use_cache,
                                            tmp |-> 0, hit |-> FALSE]]
    /\ hist' = [hist EXCEPT !.calls = @ + 1]
    /\ UNCHANGED <<cache, metrics, now, config, last, memo, report>>

\* self.metrics[key] += amount, first half: the read
TLoad(t, at, key, then) ==
    /\ threads[t].pc = at
    /\ Goto(t, then, metrics[key], threads[t].hit)
    /\ UNCHANGED <<cache, metrics, now, config, last, hist, memo, report>>

\* self.metrics[key] += amount, second half: the store
TStore(t, at, key, amount, then) ==
    /\ threads[t].pc = at
    /\ metrics' = [metrics EXCEPT ![key] = threads[t].tmp + amount]
    /\ Goto(t, then, 0, threads[t].hit)
    /\ UNCHANGED <<cache, now, config, last, hist, memo, report>>

\* query line 64
TLoadTotal(t) == TLoad(t, "load_total", "total_queries", "store_total")

TStoreTotal(t) == TStore(t, "store_total", "total_queries", 1, "lookup")

\* query lines 78-80: the cache read
TLookup(t) ==
    /\ threads[t].pc = "lookup"
    /\ LET reading == threads[t].use_cache /\ config.enable_cache
           got == IF reading
                  THEN _get_cache(cache, ThreadQuestion, now, config.cache_ttl)
                  ELSE [cached |-> <<>>, cache |-> cache]
       IN  /\ cache' = got.cache
           /\ IF got.cached # <<>>
              THEN Goto(t, "load_hits", 0, TRUE)
              ELSE Goto(t, "load_e2e", 0, FALSE)
    /\ UNCHANGED <<metrics, now, config, last, hist, memo, report>>

\* query line 81
TLoadHits(t) == TLoad(t, "load_hits", "cache_hits", "store_hits")

TStoreHits(t) == TStore(t, "store_hits", "cache_hits", 1, "load_e2e")

\* query line 85 on a hit, _finalize line 147 otherwise
TLoadE2E(t) == TLoad(t, "load_e2e", "total_latency_ms_e2e", "store_e2e")

TStoreE2E(t) ==
    TStore(t, "store_e2e", "total_latency_ms_e2e", ThreadEnv.latency,
           IF threads[t].hit THEN "return" ELSE "load_uncached")

\* _finalize lines 150-152
TLoadUncached(t) == TLoad(t, "load_uncached", "uncached_queries", "store_uncached")

TStoreUncached(t) == TStore(t, "store_uncached", "uncached_queries", 1, "load_latency")

TLoadLatency(t) ==
    TLoad(t, "load_latency", "total_latency_ms_uncached", "store_latency")

TStoreLatency(t) ==
    TStore(t, "store_latency", "total_latency_ms_uncached", ThreadEnv.latency, "write")

\* _finalize lines 154-169: the result and the cache write
TWrite(t) ==
    /\ threads[t].pc = "write"
    /\ LET found == search(ThreadEnv.db, top_k_retrieval)
           ranked == rerank(ThreadQuestion, found.value, top_k_final)
           answer == generate(_build_context(ranked.value), ThreadQuestion, ThreadEnv.llm)
           final == _finalize(metrics, cache, config, ThreadQuestion, answer.value,
                              ranked.value, ThreadEnv.latency, now, FALSE,
                              threads[t].use_cache /\ config.enable_cache)
       IN  cache' = final.cache
    /\ Goto(t, "return", 0, FALSE)
    /\ UNCHANGED <<metrics, now, config, last, hist, memo, report>>

\* query returns to the handler
TReturn(t) ==
    /\ threads[t].pc = "return"
    /\ Goto(t, "done", 0, threads[t].hit)
    /\ hist' = IF threads[t].hit
               THEN [hist EXCEPT !.from_cache = @ + 1]
               ELSE [hist EXCEPT !.not_from_cache = @ + 1]
    /\ UNCHANGED <<cache, metrics, now, config, last, memo, report>>

NextThreads ==
    \E t \in Threads :
        \/ TStart(t) \/ TLoadTotal(t) \/ TStoreTotal(t) \/ TLookup(t)
        \/ TLoadHits(t) \/ TStoreHits(t) \/ TLoadE2E(t) \/ TStoreE2E(t)
        \/ TLoadUncached(t) \/ TStoreUncached(t) \/ TLoadLatency(t)
        \/ TStoreLatency(t) \/ TWrite(t) \/ TReturn(t)

SpecThreads == Init /\ [][NextThreads]_vars

(***************************************************************************)
(* Concurrent calls of query, the cache taken one statement at a time      *)
(* (_get_cache lines 272-282, _set_cache lines 284-291).  No statement of  *)
(* RAGPipeline takes a lock, so another thread may run between the         *)
(* membership test, the subscript and the del of _get_cache, and between   *)
(* the length test, the min, the del and the assignment of _set_cache.     *)
(* A pool thread serves one request after another.  The counters of        *)
(* self.metrics are added to in one step here: their interleavings are     *)
(* those of SpecThreads.  The index and the model answer, a call takes     *)
(* 1 ms.                                                                   *)
(***************************************************************************)
RaceQuestions == { <<"revenue">>, <<"growth">> }

\* thread t moves to pc; oldest is the local oldest_key of _set_cache
Jump(t, pc, oldest, hit) ==
    threads' = [threads EXCEPT ![t] = [@ EXCEPT !.pc = pc, !.oldest = oldest, !.hit = hit]]

\* thread t raises out of query at the statement stmt
Raise(t, stmt) ==
    threads' = [threads EXCEPT ![t] = [@ EXCEPT !.pc = "raised", !.at = stmt]]

\* the handler calls rag.query(question); query lines 64 and 78
RStart(t) ==
    /\ threads[t].pc \in {"idle", "done", "raised"}
    /\ hist.calls < MaxQueries
    /\ \E question \in RaceQuestions :
         threads' = [threads EXCEPT ![t] =
                        [pc |-> IF config.enable_cache THEN "get_contains" ELSE "finalize",
                         use_cache |-> TRUE, tmp |-> 0, hit |-> FALSE,
                         question |-> question, oldest |-> <<>>, at |-> "none"]]
    /\ metrics' = [metrics EXCEPT !.total_queries = @ + 1]
    /\ hist' = [hist EXCEPT !.calls = @ + 1]
    /\ UNCHANGED <<cache, now, config, last, memo, report>>

\* _get_cache line 274: if key not in self.cache: return None
GetCacheContains(t) ==
    /\ threads[t].pc = "get_contains"
    /\ IF index_of(cache, _get_cache_key(threads[t].question)) = 0
       THEN Jump(t, "finalize", <<>>, FALSE)
       ELSE Jump(t, "get_item", <<>>, FALSE)
    /\ UNCHANGED <<cache, metrics, now, config, last, hist, memo, report>>

\* _get_cache lines 276-277 and 282, then query lines 81-92 on a hit:
\* cached, ts = self.cache[key] raises KeyError when the key is gone
GetCacheItem(t) ==
    /\ threads[t].pc = "get_item"
    /\ LET i == index_of(cache, _get_cache_key(threads[t].question))
       IN  IF i = 0
           THEN /\ Raise(t, "get_item")
                /\ hist' = [hist EXCEPT !.raised = @ + 1]
                /\ UNCHANGED metrics
           ELSE IF now - cache[i].ts > config.cache_ttl
           THEN /\ Jump(t, "get_del", <<>>, FALSE)
                /\ UNCHANGED <<metrics, hist>>
           ELSE /\ Jump(t, "done", <<>>, TRUE)
                /\ metrics' = query_cache_hit(metrics, cache, cache[i].value,
                                              ThreadEnv.latency, now).metrics
                /\ hist' = [hist EXCEPT !.from_cache = @ + 1]
    /\ UNCHANGED <<cache, now, config, last, memo, report>>

\* _get_cache line 278: del self.cache[key] raises KeyError when the key is gone
GetCacheDel(t) ==
    /\ threads[t].pc = "get_del"
    /\ LET i == index_of(cache, _get_cache_key(threads[t].question))
       IN  IF i = 0
           THEN /\ Raise(t, "get_del")
                /\ hist' = [hist EXCEPT !.raised = @ + 1]
                /\ UNCHANGED cache
           ELSE /\ Jump(t, "finalize", <<>>, FALSE)
                /\ cache' = del_at(cache, i)
                /\ UNCHANGED hist
    /\ UNCHANGED <<metrics, now, config, last, memo, report>>

\* query lines 95-120 and _finalize lines 144-165: the miss is answered and
\* counted
RFinalize(t) ==
    /\ threads[t].pc = "finalize"
    /\ metrics' = [metrics EXCEPT !.total_latency_ms_e2e = @ + ThreadEnv.latency,
                                  !.uncached_queries = @ + 1,
                                  !.total_latency_ms_uncached = @ + ThreadEnv.latency]
    /\ IF config.enable_cache
       THEN /\ Jump(t, "set_len", <<>>, FALSE)
            /\ UNCHANGED hist
       ELSE /\ Jump(t, "done", <<>>, FALSE)
            /\ hist' = [hist EXCEPT !.not_from_cache = @ + 1]
    /\ UNCHANGED <<cache, now, config, last, memo, report>>

\* _set_cache line 285: if len(self.cache) >= int(Config.cache_max_size)
SetCacheLen(t) ==
    /\ threads[t].pc = "set_len"
    /\ IF Len(cache) >= config.cache_max_size
       THEN Jump(t, "set_min", <<>>, FALSE)
       ELSE Jump(t, "set_item", <<>>, FALSE)
    /\ UNCHANGED <<cache, metrics, now, config, last, hist, memo, report>>

\* _set_cache line 286: oldest_key = min(self.cache, key = ...) raises
\* ValueError when the dict is empty
SetCacheMin(t) ==
    /\ threads[t].pc = "set_min"
    /\ IF cache = <<>>
       THEN /\ Raise(t, "set_min")
            /\ hist' = [hist EXCEPT !.raised = @ + 1]
       ELSE /\ Jump(t, "set_del", <<cache[oldest_index(cache)].key>>, FALSE)
            /\ UNCHANGED hist
    /\ UNCHANGED <<cache, metrics, now, config, last, memo, report>>

\* _set_cache line 287: del self.cache[oldest_key] raises KeyError when the
\* key is gone
SetCacheDel(t) ==
    /\ threads[t].pc = "set_del"
    /\ LET i == index_of(cache, threads[t].oldest[1])
       IN  IF i = 0
           THEN /\ Raise(t, "set_del")
                /\ hist' = [hist EXCEPT !.raised = @ + 1]
                /\ UNCHANGED cache
           ELSE /\ Jump(t, "set_item", <<>>, FALSE)
                /\ cache' = del_at(cache, i)
                /\ UNCHANGED hist
    /\ UNCHANGED <<metrics, now, config, last, memo, report>>

\* _set_cache line 291: self.cache[key] = (result.copy(), datetime.now())
SetCacheItem(t) ==
    /\ threads[t].pc = "set_item"
    /\ LET question == threads[t].question
           found == search(ThreadEnv.db, top_k_retrieval)
           ranked == rerank(question, found.value, top_k_final)
           answer == generate(_build_context(ranked.value), question, ThreadEnv.llm)
           final == _finalize(metrics, <<>>, config, question, answer.value,
                              ranked.value, ThreadEnv.latency, now, FALSE, FALSE)
           i == index_of(cache, _get_cache_key(question))
           entry == [key |-> _get_cache_key(question), value |-> final.result[1],
                     ts |-> now]
       IN  cache' = IF i = 0 THEN Append(cache, entry) ELSE [cache EXCEPT ![i] = entry]
    /\ Jump(t, "done", <<>>, FALSE)
    /\ hist' = [hist EXCEPT !.not_from_cache = @ + 1]
    /\ UNCHANGED <<metrics, now, config, last, memo, report>>

NextRace ==
    \/ \E t \in Threads :
        \/ RStart(t) \/ GetCacheContains(t) \/ GetCacheItem(t) \/ GetCacheDel(t)
        \/ RFinalize(t) \/ SetCacheLen(t) \/ SetCacheMin(t) \/ SetCacheDel(t)
        \/ SetCacheItem(t)
    \/ Tick

SpecRace == Init /\ [][NextRace]_vars

(***************************************************************************)
(* The collaborators called on their own                                   *)
(***************************************************************************)
\* no call of query was made on the pipeline
Unused ==
    /\ cache = <<>>
    /\ metrics = [total_queries |-> 0, cache_hits |-> 0, total_latency_ms_e2e |-> 0,
                  total_latency_ms_uncached |-> 0, uncached_queries |-> 0]
    /\ now = 0
    /\ config = [enable_cache |-> TRUE, cache_ttl |-> 1, cache_max_size |-> 1]
    /\ hist = [calls |-> 0, from_cache |-> 0, not_from_cache |-> 0, raised |-> 0]
    /\ memo = [k \in Normalized |-> <<>>]
    /\ report = <<>>
    /\ threads = [t \in Threads |-> IdleThread]

\* the lists of at most MaxPassages elements of S
Lists(S) == UNION {[1..n -> S] : n \in 0..MaxPassages}

\* passages with the similarity search gives them
RerankPassages ==
    { <<DocRevenue, 900090>>, <<DocGrowth, 850340>>, <<DocStores, 800000>>,
      <<DocWorld, 699790>>, <<DocBare, 666666>> }

\* a call of Reranker.rerank that is about to be made: last holds its
\* arguments, and its outcome once it was made
InitRerank ==
    /\ Unused
    /\ last \in [path : {"rerank"},
                 args : [query : {<<"revenue">>, <<"growth", SP, "stores">>},
                         docs_scores : Lists(RerankPassages),
                         top_k : 0..MaxTopK],
                 done : {FALSE}, raises : {FALSE}, result : {<<>>}]

Rerank ==
    /\ last.path = "rerank" /\ ~last.done
    /\ LET out == rerank(last.args.query, last.args.docs_scores, last.args.top_k)
       IN  last' = [last EXCEPT !.done = TRUE, !.raises = out.raises,
                                !.result = out.value]
    /\ UNCHANGED <<cache, metrics, now, config, hist, memo, report, threads>>

SpecRerank == InitRerank /\ [][Rerank]_vars

\* the word count rerank scores highest, and a document of that many words
\* that names a financial term and holds numbers
IdealLength == 200

DocIdeal ==
    Doc([i \in 1..(2 * IdealLength - 1) |->
           IF i % 2 = 0 THEN SP ELSE IF i = 1 THEN "revenue" ELSE "million"],
        "10", TRUE)

\* the similarities in [0, 1] search can give a passage
Similarities == {(i * Unit) \div SimSteps : i \in 0..SimSteps}

\* a call of Reranker.rerank on one passage that is about to be made: last
\* holds the query, the passage and its similarity, and the final score once
\* the call was made
InitScore ==
    /\ Unused
    /\ last \in [path : {"score"},
                 args : [query : {<<>>, <<"revenue">>, <<"growth", SP, "stores">>},
                         doc : {DocRevenue, DocGrowth, DocStores, DocWorld, DocIdeal},
                         sim_score : Similarities],
                 done : {FALSE}, score : {0}]

Score ==
    /\ last.path = "score" /\ ~last.done
    /\ LET out == rerank(last.args.query, <<<<last.args.doc, last.args.sim_score>>>>, 1)
       IN  last' = [last EXCEPT !.done = TRUE, !.score = out.value[1][2]]
    /\ UNCHANGED <<cache, metrics, now, config, hist, memo, report, threads>>

SpecScore == InitScore /\ [][Score]_vars

\* passages with a score, or with none
ConfidencePassages ==
    { <<DocRevenue, 900000>>, <<DocGrowth, 850000>>, <<DocStores, 800000>>,
      <<DocWorld, 200000>>, <<DocWorld, 500000>>, <<DocBare, NoScore>> }

Answers == { <<"Revenue was 86,153 [Page 10].">>, <<"No figure is given.">> }

\* the similarities a score is raised to
RaisedTo == {550000, 900000}

\* what _compute_confidence returns on the arguments, with the score the
\* checks add up to before the clamp (0 when no check is made)
confidence_of(args) ==
    [result |-> _compute_confidence(args.docs_scores, args.answer),
     raw |-> IF \E i \in 1..Len(args.docs_scores) : args.docs_scores[i][2] # NoScore
             THEN confidence_checks(args.docs_scores, args.answer).score
             ELSE 0]

\* a call of RAGPipeline._compute_confidence that is about to be made: last
\* holds its arguments, and its outcome once it was made; before holds the
\* arguments and the outcome of the call made before one score was raised
InitConfidence ==
    /\ Unused
    /\ last \in [path : {"confidence"},
                 args : [docs_scores : Lists(ConfidencePassages), answer : Answers],
                 done : {FALSE}, result : {<<>>}, raw : {0}, before : {<<>>}]

ComputeConfidence ==
    /\ last.path = "confidence" /\ ~last.done
    /\ LET out == confidence_of(last.args)
       IN  last' = [last EXCEPT !.done = TRUE, !.result = out.result, !.raw = out.raw]
    /\ UNCHANGED <<cache, metrics, now, config, hist, memo, report, threads>>

\* the same passages and answer with one similarity raised
RaiseSimilarity ==
    /\ last.path = "confidence" /\ last.done /\ last.before = <<>>
    /\ \E i \in 1..Len(last.args.docs_scores), sim \in RaisedTo :
        LET ds == last.args.docs_scores
            args == [last.args EXCEPT !.docs_scores = [ds EXCEPT ![i] = <<ds[i][1], sim>>]]
            out == confidence_of(args)
        IN  /\ ds[i][2] # NoScore /\ ds[i][2] < sim
            /\ last' = [last EXCEPT !.args = args, !.result = out.result, !.raw = out.raw,
                                    !.before = << [args |-> last.args,
                                                   result |-> last.result,
                                                   raw |-> last.raw] >>]
    /\ UNCHANGED <<cache, metrics, now, config, hist, memo, report, threads>>

NextConfidence == ComputeConfidence \/ RaiseSimilarity

SpecConfidence == InitConfidence /\ [][NextConfidence]_vars

(***************************************************************************)
(* Vocabulary of the properties                                            *)
(***************************************************************************)
\* the step is one call of query
CallStep == hist'.calls = hist.calls + 1

\* l records a call of query
IsCall(l) == l.path \notin {"none", "get_metrics"}

\* l records a call of query that returned a result taken from the cache
IsHit(l) == IsCall(l) /\ ~l.raises /\ l.result[1].from_cache

\* l records a call with a non-empty question that was allowed to use the cache
Reading(l) == IsCall(l) /\ l.use_cache /\ config.enable_cache /\ l.question # <<>>

\* the normalized questions the cache c holds an entry for, and their entries
Cached(c) == {x \in Normalized : \E i \in 1..Len(c) : c[i].key = md5_hexdigest(x)}

Entry(c, x) == c[CHOOSE i \in 1..Len(c) : c[i].key = md5_hexdigest(x)]

\* what a result holds besides the fields a hit stamps
Payload(r) ==
    [answer |-> r.answer, sources |-> r.sources, evidence |-> r.evidence,
     confidence |-> r.confidence]

\* the positions of the passages that have a score
Rated(ds) == {i \in 1..Len(ds) : ds[i][2] # NoScore}

\* max(scores) >= 0.55 and mean(scores) >= 0.45 over the passages with a score
TopAtLeast055(ds) == \E i \in Rated(ds) : 100 * ds[i][2] >= 55 * Unit

MeanAtLeast045(ds) ==
    100 * SumSeq([i \in 1..Len(ds) |-> IF i \in Rated(ds) THEN ds[i][2] ELSE 0])
        >= 45 * Unit * Cardinality(Rated(ds))

(***************************************************************************)
(* Properties of the cache (specification Spec)                            *)
(***************************************************************************)
\* C1: a call whose question is empty after trimming (a missing question
\* included) returns normally with the answer "Empty question.",
\* from_cache = False, no sources, no evidence and confidence LOW, and leaves
\* the cache as it was, whatever use_cache is.
C1_EmptyQuestion ==
    [][ (CallStep /\ last'.question = <<>>) =>
          /\ ~last'.raises
          /\ last'.result[1].answer = EmptyAnswer
          /\ last'.result[1].from_cache = FALSE
          /\ last'.result[1].sources = <<>>
          /\ last'.result[1].evidence = <<>>
          /\ last'.result[1].confidence.level = "LOW"
          /\ cache' = cache ]_vars

C1_Witness ==
    /\ IsCall(last) /\ last.question = <<>> /\ last.use_cache
    /\ config.enable_cache /\ Len(cache) >= 1

\* C2: with caching enabled, when a call with use_cache completed as a miss
\* for a question and the question is asked again with use_cache while the
\* entry is still in the cache and has not outlived the TTL, the second call
\* returns from_cache = True and the answer of the first.
C2_SecondCallHits ==
    [][ (/\ CallStep
         /\ Reading(last')
         /\ memo[last'.question] # <<>>
         /\ now - memo[last'.question][1].t <= config.cache_ttl) =>
          /\ ~last'.raises
          /\ last'.result[1].from_cache = TRUE
          /\ last'.result[1].answer = memo[last'.question][1].answer ]_vars

C2_Witness ==
    /\ IsHit(last) /\ last.age # <<>>
    /\ last.result[1].answer = Fallback

\* C3 as stated: an entry stored at time T is absent for every read at a time
\* >= T + TTL, the read at exactly T + TTL included.
C3_AbsentFromTTL ==
    (Reading(last) /\ last.age # <<>> /\ last.age[1] >= config.cache_ttl)
        => ~IsHit(last)

\* C3 as amended: an entry stored at time T is absent for every read at a time
\* > T + TTL, and is still served by a read at a time <= T + TTL.
C3_AbsentAfterTTL ==
    (Reading(last) /\ last.age # <<>>)
        => ((last.age[1] > config.cache_ttl) <=> ~IsHit(last))

C3_Witness ==
    /\ Reading(last) /\ last.age # <<>>
    /\ last.age[1] > config.cache_ttl /\ ~IsHit(last)

C5_CacheBounded == Len(cache) <= config.cache_max_size

C5_Witness ==
    /\ Reading(last) /\ ~last.raises /\ ~IsHit(last)
    /\ last.pre_len = config.cache_max_size
    /\ Len(cache) = config.cache_max_size

\* C10: when the prompt formatting or the model call fails, generate returns
\* the fallback answer: the call of query returns normally with that answer
\* and, when the call may write the cache, the entry of the question holds it.
C10_GeneratorFallback ==
    last.llm \in {"format_error", "invoke_error"} =>
        /\ ~last.raises
        /\ last.result[1].answer = Fallback
        /\ last.result[1].from_cache = FALSE
        /\ (last.use_cache /\ config.enable_cache) =>
              /\ last.question \in Cached(cache)
              /\ Entry(cache, last.question).value.answer = Fallback

C10_Witness ==
    /\ last.llm = "invoke_error" /\ last.use_cache /\ config.enable_cache
    /\ last.question \in Cached(cache)

(***************************************************************************)
(* Properties of the metrics (specification SpecMetrics)                   *)
(***************************************************************************)
\* C6 as stated: after N calls answered not from the cache and M calls
\* answered from it, none having raised, get_metrics reports
\* total_queries = N + M, cache_hits = M and cache_hit_rate = M / (N + M),
\* 0 when N + M = 0.
C6_ExactRate ==
    (report # <<>> /\ hist.raised = 0) =>
        LET N == hist.not_from_cache
            M == hist.from_cache
        IN  /\ report[1].total_queries = N + M
            /\ report[1].cache_hits = M
            /\ report[1].cache_hit_rate * (N + M) = 1000 * M
            /\ (N + M = 0 => report[1].cache_hit_rate = 0)

\* C6 as amended: ... and cache_hit_rate = M / (N + M) rounded to 3 decimals.
C6_RoundedRate ==
    (report # <<>> /\ hist.raised = 0) =>
        LET N == hist.not_from_cache
            M == hist.from_cache
        IN  /\ report[1].total_queries = N + M
            /\ report[1].cache_hits = M
            /\ 2 * Abs(1000 * M - report[1].cache_hit_rate * (N + M)) <= N + M
            /\ (N + M = 0 => report[1].cache_hit_rate = 0)

C6_Witness ==
    /\ report # <<>> /\ hist.raised = 0
    /\ hist.from_cache = 1 /\ hist.not_from_cache = 2
    /\ report[1].cache_hit_rate = 333

\* C7 as stated: a call with an empty question adds one to total_queries and
\* its latency to the E2E sum, and leaves uncached_queries and
\* total_latency_ms_uncached as they were.
C7_EmptyNotUncached ==
    [][ (CallStep /\ last'.question = <<>>) =>
          /\ ~last'.raises
          /\ metrics'.total_queries = metrics.total_queries + 1
          /\ metrics'.total_latency_ms_e2e
               = metrics.total_latency_ms_e2e + last'.result[1].latency_ms
          /\ metrics'.uncached_queries = metrics.uncached_queries
          /\ metrics'.total_latency_ms_uncached = metrics.total_latency_ms_uncached ]_vars

\* C7 as amended: a call with an empty question adds one to total_queries and
\* its latency to the E2E sum, and also adds one to uncached_queries and its
\* latency to total_latency_ms_uncached; cache_hits stays as it was.
C7_EmptyCountsUncached ==
    [][ (CallStep /\ last'.question = <<>>) =>
          /\ ~last'.raises
          /\ metrics'.total_queries = metrics.total_queries + 1
          /\ metrics'.total_latency_ms_e2e
               = metrics.total_latency_ms_e2e + last'.result[1].latency_ms
          /\ metrics'.uncached_queries = metrics.uncached_queries + 1
          /\ metrics'.total_latency_ms_uncached
               = metrics.total_latency_ms_uncached + last'.result[1].latency_ms
          /\ metrics'.cache_hits = metrics.cache_hits ]_vars

C7_Witness ==
    /\ IsCall(last) /\ last.question = <<>> /\ ~last.raises
    /\ last.result[1].latency_ms = 1
    /\ metrics.uncached_queries >= 2

\* C8: a call answered from the cache adds one to cache_hits and its latency
\* to the E2E sum, and leaves uncached_queries and total_latency_ms_uncached
\* as they were.
C8_HitAccounting ==
    [][ (CallStep /\ IsHit(last')) =>
          /\ metrics'.cache_hits = metrics.cache_hits + 1
          /\ metrics'.total_latency_ms_e2e
               = metrics.total_latency_ms_e2e + last'.result[1].latency_ms
          /\ metrics'.uncached_queries = metrics.uncached_queries
          /\ metrics'.total_latency_ms_uncached = metrics.total_latency_ms_uncached ]_vars

C8_Witness ==
    /\ IsHit(last) /\ last.result[1].latency_ms = 1
    /\ metrics.cache_hits = 2

\* C9: a call in which the retriever or the reranker raises leaves every
\* metrics counter and the cache as they were before the call.
C9_RaiseLeavesNoTrace ==
    [][ (CallStep /\ last'.raises) => (metrics' = metrics /\ cache' = cache) ]_vars

(***************************************************************************)
(* Properties of the retrieval (specification SpecRetrieval)               *)
(***************************************************************************)
\* C11: when search returns no passages for a non-empty question, the call
\* returns normally with the answer "No relevant information found in the
\* document.", no sources, no evidence and confidence LOW, 0.0, [NO_SOURCES];
\* search is the only collaborator it invoked (neither the reranker nor the
\* generator); the result is in the cache afterwards when use_cache and
\* Config.enable_cache hold, and the cache is as it was before otherwise.
C11_NoPassages ==
    [][ (CallStep /\ last'.retrieved = << <<>> >>) =>
          /\ ~last'.raises
          /\ last'.result[1].answer = NoInfoAnswer
          /\ last'.result[1].sources = <<>>
          /\ last'.result[1].evidence = <<>>
          /\ last'.result[1].confidence
               = [level |-> "LOW", score |-> 0, reasons |-> <<"NO_SOURCES">>]
          /\ last'.result[1].from_cache = FALSE
          /\ last'.calls = <<"search">>
          /\ IF last'.use_cache /\ config.enable_cache
             THEN /\ last'.question \in Cached(cache')
                  /\ Entry(cache', last'.question).value = last'.result[1]
                  /\ Entry(cache', last'.question).ts = now
             ELSE cache' = cache ]_vars

C11_Witness ==
    /\ IsCall(last) /\ last.retrieved = << <<>> >>
    /\ last.use_cache /\ config.enable_cache
    /\ last.question \in Cached(cache)
    /\ Entry(cache, last.question).value.answer = NoInfoAnswer

\* C18: in every result query returns, the evidence has min(3, number of
\* sources) items, and each item of the evidence has the page and the score of
\* the source at the same position.
C18_EvidenceFollowsSources ==
    (IsCall(last) /\ ~last.raises) =>
        LET sources == last.result[1].sources
            evidence == last.result[1].evidence
        IN  /\ Len(evidence) = Min(3, Len(sources))
            /\ Len(evidence) <= 3
            /\ \A i \in 1..Len(evidence) :
                  /\ evidence[i].page = sources[i].page
                  /\ evidence[i].score = sources[i].score

C18_Witness ==
    /\ IsCall(last) /\ ~last.raises
    /\ Len(last.result[1].sources) = 5
    /\ Len(last.result[1].evidence) = 3
    /\ last.result[1].evidence[3].page = last.result[1].sources[3].page
    /\ last.result[1].sources[5].page = "?"

(***************************************************************************)
(* Properties of the stored payload and of the keys (specifications        *)
(* SpecKeys and SpecCallers)                                               *)
(***************************************************************************)
\* C12: the result of a hit has from_cache = True, the latency of that call
\* and the timestamp of that call, while the entry it was read from is the
\* same after the hit as before: its payload still has from_cache = False and
\* the latency and the timestamp of the call that stored it.
C12_HitStampsACopy ==
    [][ (CallStep /\ IsHit(last')) =>
          LET q == last'.question
              r == last'.result[1]
          IN  /\ r.from_cache = TRUE
              /\ r.latency_ms = metrics'.total_latency_ms_e2e - metrics.total_latency_ms_e2e
              /\ r.timestamp = isoformat(now)
              /\ q \in Cached(cache) /\ q \in Cached(cache')
              /\ Entry(cache', q) = Entry(cache, q)
              /\ Entry(cache', q).value.from_cache = FALSE
              /\ Entry(cache', q).value.latency_ms = memo[q][1].result.latency_ms
              /\ Entry(cache', q).value.timestamp = isoformat(memo[q][1].t)
              /\ Entry(cache', q).ts = memo[q][1].t ]_vars

C12_Witness ==
    /\ IsHit(last) /\ hist.from_cache = 2
    /\ last.question \in Cached(cache)
    /\ Entry(cache, last.question).value.latency_ms # last.result[1].latency_ms
    /\ Entry(cache, last.question).value.timestamp # last.result[1].timestamp
    /\ last.result[1].timestamp = isoformat(now)

\* C13: whatever the caller does to the results it was returned, a hit
\* returns the answer, sources, evidence and confidence computed by the call
\* that stored the entry.
C13_CallerCannotCorrupt ==
    [][ (CallStep /\ IsHit(last')) =>
          /\ memo[last'.question] # <<>>
          /\ Payload(last'.result[1]) = Payload(memo[last'.question][1].result) ]_vars

\* C14: a question equal, after trimming and lower-casing, to a question whose
\* entry is in the cache and has not outlived the TTL is answered from that
\* entry; a hit returns what a call with the same normalized question stored;
\* and a call leaves the entries of the other normalized questions as they
\* were, unless it evicts one to make room for its own.
C14_KeyIsNormalizedQuestion ==
    [][ CallStep =>
          LET q == last'.question
          IN  /\ (/\ Reading(last') /\ memo[q] # <<>>
                  /\ now - memo[q][1].t <= config.cache_ttl) => IsHit(last')
              /\ IsHit(last') =>
                    /\ memo[q] # <<>>
                    /\ Entry(cache, q).value = memo[q][1].result
                    /\ Payload(last'.result[1]) = Payload(memo[q][1].result)
              /\ \A x \in Cached(cache) \ {q} :
                    IF x \in Cached(cache')
                    THEN Entry(cache', x) = Entry(cache, x)
                    ELSE /\ Len(cache) >= config.cache_max_size
                         /\ q \in Cached(cache') /\ Entry(cache', q).ts = now ]_vars

C14_Witness ==
    /\ hist.calls = 3 /\ hist.from_cache = 1 /\ IsHit(last)
    /\ Cardinality(Cached(cache)) = 2
    /\ last.question = <<"revenue">>

(***************************************************************************)
(* Properties of the reranker (specification SpecRerank)                   *)
(***************************************************************************)
\* C15: the list rerank returns has at most top_k elements, each a passage of
\* the input with its final score, in order of non-increasing final score.
C15_RerankSortedAndCut ==
    (last.path = "rerank" /\ last.done /\ ~last.raises) =>
        LET out == last.result
            ds == last.args.docs_scores
        IN  /\ Len(out) <= last.args.top_k
            /\ Len(out) = Min(last.args.top_k, Len(ds))
            /\ \A i \in 1..Len(out) :
                  \E j \in 1..Len(ds) :
                      /\ out[i][1] = ds[j][1]
                      /\ out[i][2] = final_score(last.args.query, ds[j][1], ds[j][2])
            /\ \A i \in 1..(Len(out) - 1) : out[i][2] >= out[i + 1][2]

C15_Witness ==
    /\ last.path = "rerank" /\ last.done /\ ~last.raises
    /\ Len(last.args.docs_scores) = 3 /\ last.args.top_k = 2
    /\ Len(last.result) = 2
    /\ last.result[1][1] = last.args.docs_scores[3][1]
    /\ last.result[1][2] > last.result[2][2]
    /\ last.result[1][1] # last.args.docs_scores[1][1]

(***************************************************************************)
(* Properties of the confidence (specification SpecConfidence)             *)
(***************************************************************************)
\* C16: for passages of which at least one has a score, the confidence score
\* is the clamp to [0, 1] of 0.40 if max(scores) >= 0.55, plus 0.20 if
\* mean(scores) >= 0.45, plus 0.15 if the passages have at least 2 distinct
\* values of page, plus 0.15 if at least 2 passages have has_numbers, minus
\* 0.20 if the answer holds a digit and no passage has has_numbers; the
\* reasons are the codes of the failed checks and of the penalty when applied,
\* each once; the level is HIGH from 0.75, MEDIUM from 0.50, else LOW.  The
\* similarities 0.90, 0.85, 0.80 on pages 10, 11, 49, all with has_numbers,
\* give HIGH and 0.900.
C16_ConfidenceFormula ==
    (last.path = "confidence" /\ last.done /\ Rated(last.args.docs_scores) # {}) =>
        LET ds == last.args.docs_scores
            pages == {ds[i][1].metadata.page : i \in 1..Len(ds)}
            numeric == {i \in 1..Len(ds) : ds[i][1].metadata.has_numbers}
            top_ok == TopAtLeast055(ds)
            avg_ok == MeanAtLeast045(ds)
            pages_ok == Cardinality(pages) >= 2
            numeric_ok == Cardinality(numeric) >= 2
            penalty == has_digit(last.args.answer) /\ numeric = {}
            sum == (IF top_ok THEN 400 ELSE 0) + (IF avg_ok THEN 200 ELSE 0)
                   + (IF pages_ok THEN 150 ELSE 0) + (IF numeric_ok THEN 150 ELSE 0)
                   - (IF penalty THEN 200 ELSE 0)
            score == IF sum < 0 THEN 0 ELSE IF sum > 1000 THEN 1000 ELSE sum
            codes == (IF top_ok THEN {} ELSE {"LOW_TOP_SIMILARITY"})
                     \cup (IF avg_ok THEN {} ELSE {"LOW_AVG_SIMILARITY"})
                     \cup (IF pages_ok THEN {} ELSE {"SINGLE_PAGE_EVIDENCE"})
                     \cup (IF numeric_ok THEN {} ELSE {"LOW_NUMERIC_EVIDENCE"})
                     \cup (IF penalty THEN {"ANSWER_HAS_NUMBERS_WITHOUT_SUPPORT"} ELSE {})
            conf == last.result
        IN  /\ conf.score = score
            /\ Range(conf.reasons) = codes
            /\ Len(conf.reasons) = Cardinality(codes)
            /\ (conf.level = "HIGH") <=> (score >= 750)
            /\ (conf.level = "MEDIUM") <=> (score >= 500 /\ score < 750)
            /\ (conf.level = "LOW") <=> (score < 500)
            /\ (ds = << <<DocRevenue, 900000>>, <<DocGrowth, 850000>>,
                        <<DocStores, 800000>> >>)
                  => (conf.level = "HIGH" /\ conf.score = 900)

C16_Witness ==
    /\ last.path = "confidence" /\ last.done /\ last.before = <<>>
    /\ last.args.docs_scores
         = << <<DocRevenue, 900000>>, <<DocGrowth, 850000>>, <<DocStores, 800000>> >>
    /\ last.result = [level |-> "HIGH", score |-> 900, reasons |-> <<>>]

\* C17: when one similarity is raised so that max(scores) goes from below 0.55
\* to 0.55 or more while the outcome of the check of the mean stays the same
\* (the passages, their pages, their has_numbers and the answer being the
\* same), the score before the clamp grows by exactly 0.40, the reported
\* score grows, and LOW_TOP_SIMILARITY is among the reasons before and not
\* after.
C17_TopSimilarityAdds040 ==
    [][ (/\ last.path = "confidence" /\ last.done /\ last.before = <<>>
         /\ last'.before # <<>>
         /\ Rated(last.args.docs_scores) # {}
         /\ ~TopAtLeast055(last.args.docs_scores)
         /\ TopAtLeast055(last'.args.docs_scores)
         /\ MeanAtLeast045(last.args.docs_scores)
              <=> MeanAtLeast045(last'.args.docs_scores)) =>
          /\ last'.raw = last.raw + 400
          /\ last'.result.score > last.result.score
          /\ "LOW_TOP_SIMILARITY" \in Range(last.result.reasons)
          /\ "LOW_TOP_SIMILARITY" \notin Range(last'.result.reasons)
          /\ Range(last.result.reasons) \ {"LOW_TOP_SIMILARITY"}
               = Range(last'.result.reasons) ]_vars

C17_Witness ==
    /\ last.path = "confidence" /\ last.before # <<>>
    /\ last.before[1].raw = 0 - 200 /\ last.raw = 200
    /\ last.before[1].result.score = 0 /\ last.result.score = 200
    /\ "LOW_TOP_SIMILARITY" \in Range(last.before[1].result.reasons)
    /\ "LOW_TOP_SIMILARITY" \notin Range(last.result.reasons)

(***************************************************************************)
(* Properties of the record of get_metrics (specification SpecMetrics)     *)
(***************************************************************************)
\* C19: once a call of query has returned, the record get_metrics returns has
\* total_queries >= 1 and holds the keys avg_latency_ms and cache_hit_rate.
C19_MetricsKeys ==
    (report # <<>> /\ hist.from_cache + hist.not_from_cache >= 1) =>
        /\ report[1].total_queries >= 1
        /\ "avg_latency_ms" \in DOMAIN report[1]
        /\ "cache_hit_rate" \in DOMAIN report[1]

(***************************************************************************)
(* Properties of concurrent calls (specification SpecThreads)              *)
(***************************************************************************)
\* C20: once every thread has returned from its call of query, total_queries
\* is the number of calls made and cache_hits + uncached_queries is
\* total_queries.
C20_NoLostUpdate ==
    (\A t \in Threads : threads[t].pc = "done") =>
        /\ metrics.total_queries = hist.calls
        /\ metrics.cache_hits + metrics.uncached_queries = metrics.total_queries


\* C21: under every interleaving of concurrent calls of query on the one
\* pipeline the cache never holds more than cache_max_size entries, and no
\* call raises because another call already removed the entry it is expiring
\* or evicting (SpecRace)
C21_CacheStepsAtomic ==
    /\ Len(cache) <= config.cache_max_size
    /\ \A t \in Threads :
          threads[t].pc = "raised" => threads[t].at \notin {"get_del", "set_del"}

(***************************************************************************)
(* Properties of the cache discipline (specification SpecExpiry)           *)
(***************************************************************************)
\* some entry of the cache c1 is not an entry of the cache c
Written(c, c1) == \E i \in 1..Len(c1) : \A j \in 1..Len(c) : c1[i] # c[j]

\* C22: a call with use_cache False, or made with caching disabled, leaves
\* the cache and cache_hits as they were and, when it returns, returns
\* from_cache = False, even when the cache holds a live entry for its
\* question; and an entry is written to the cache only by a call that returned
\* a result not taken from the cache, for a non-empty question, with
\* use_cache True and caching enabled.
C22_CacheBypass ==
    [][ /\ (CallStep /\ ~(last'.use_cache /\ config.enable_cache)) =>
              /\ cache' = cache
              /\ metrics'.cache_hits = metrics.cache_hits
              /\ ~IsHit(last')
        /\ Written(cache, cache') =>
              /\ CallStep /\ ~last'.raises /\ ~IsHit(last')
              /\ last'.question # <<>>
              /\ last'.use_cache /\ config.enable_cache ]_vars

C22_Witness ==
    /\ IsCall(last) /\ ~last.use_cache /\ config.enable_cache
    /\ last.path = "full" /\ ~last.result[1].from_cache
    /\ last.age # <<>> /\ last.age[1] <= config.cache_ttl
    /\ last.question \in Cached(cache)

\* the entry the cache c holds for x has outlived the TTL at time t
Expired(c, x, t) == t - Entry(c, x).ts > config.cache_ttl

\* C23: a hit leaves the entry it served as it was, payload and insertion
\* time, and an entry is written for a key only when the cache holds no entry
\* for it: the key was not there, or the read of the same call found its
\* entry expired and removed it; an entry that has not outlived the TTL is
\* never written again.
C23_WriteOnce ==
    [][ /\ (CallStep /\ IsHit(last')) =>
              /\ last'.question \in Cached(cache)
              /\ cache' = cache
        /\ \A x \in Cached(cache') :
              \/ x \notin Cached(cache)
              \/ Entry(cache', x) = Entry(cache, x)
              \/ /\ CallStep /\ Reading(last') /\ last'.question = x
                 /\ Expired(cache, x, now) ]_vars

C23_Witness ==
    /\ IsHit(last) /\ last.age # <<>> /\ last.age[1] > 0
    /\ Entry(cache, last.question).ts = now - last.age[1]
    /\ Payload(Entry(cache, last.question).value) = Payload(last.result[1])

\* C24: an entry that outlived the TTL leaves the cache only in a call that
\* reads the cache for its own key, which then is a miss and, when it
\* returns, stores the key again with the time of the call, or in a call
\* that stores another key with the cache at capacity; every other step
\* (a call for another key, a call that may not use the cache, get_metrics,
\* the passing of time) leaves it in the cache as it was, and get_metrics
\* counts it in cache_size.
C24_LazyExpiry ==
    [][ /\ \A x \in Cached(cache) : Expired(cache, x, now) =>
              LET own == CallStep /\ Reading(last') /\ last'.question = x
                  evicting == /\ CallStep /\ Reading(last')
                              /\ ~last'.raises /\ ~IsHit(last')
                              /\ last'.question \notin Cached(cache)
                              /\ Len(cache) = config.cache_max_size
              IN  /\ own =>
                        /\ ~IsHit(last')
                        /\ IF last'.raises
                           THEN x \notin Cached(cache')
                           ELSE x \in Cached(cache') /\ Entry(cache', x).ts = now
                  /\ ~own =>
                        \/ x \in Cached(cache') /\ Entry(cache', x) = Entry(cache, x)
                        \/ evicting /\ x \notin Cached(cache')
        /\ (report = <<>> /\ report' # <<>>) =>
              /\ cache' = cache
              /\ report'[1].cache_size = Len(cache) ]_vars

C24_Witness ==
    /\ report # <<>> /\ report[1].cache_size = Len(cache)
    /\ \E x \in Cached(cache) : Expired(cache, x, now)

\* C28: as long as every call of query returned (calls with an empty
\* question, calls that found nothing, hits and misses in any order),
\* total_queries = cache_hits + uncached_queries.
C28_CountersAddUp ==
    hist.raised = 0 =>
        metrics.total_queries = metrics.cache_hits + metrics.uncached_queries

C28_Witness ==
    /\ hist.raised = 0 /\ hist.calls = 3 /\ last.path = "empty"
    /\ metrics.cache_hits = 1 /\ metrics.uncached_queries = 2
    /\ \E i \in 1..Len(cache) : cache[i].value.answer = NoInfoAnswer

(***************************************************************************)
(* Properties of the retrieval arguments (specification SpecRetrieval)     *)
(***************************************************************************)
\* C29: a hit returns the answer, the sources, the evidence and the
\* confidence computed by the call that stored the entry, whatever top_k and
\* use_rerank that call and the hitting call were given: with any other
\* top_k and use_rerank the hitting call returns the same result.
C29_HitIgnoresTopKAndRerank ==
    [][ (CallStep /\ IsHit(last')) =>
          /\ memo[last'.question] # <<>>
          /\ Payload(last'.result[1]) = Payload(memo[last'.question][1].result)
          /\ \A top_k \in {<<>>, <<1>>, <<2>>}, use_rerank \in BOOLEAN, env \in EnvsRetrieval :
                query(metrics, cache, config, now, last'.question, top_k, TRUE,
                      use_rerank, env).result = last'.result ]_vars

C29_Witness ==
    /\ IsHit(last) /\ memo[last.question] # <<>>
    /\ last.top_k = <<>> /\ last.use_rerank
    /\ memo[last.question][1].top_k = <<2>> /\ ~memo[last.question][1].use_rerank
    /\ Len(last.result[1].sources) = 2

\* C26: every result of query has at most top_k_final sources; a call with
\* use_rerank False does not invoke the reranker, and the sources of its
\* result are the first top_k_final passages search returned, in that order,
\* each with its page, its similarity (rounded) and its text.
C26_SourcesCutToTopKFinal ==
    /\ (IsCall(last) /\ ~last.raises) =>
          Len(last.result[1].sources) <= top_k_final
    /\ (IsCall(last) /\ ~last.use_rerank) =>
          /\ "rerank" \notin Range(last.calls)
          /\ last.path # "rerank_raised"
          /\ last.path \in {"full", "no_docs"} =>
                LET found == last.retrieved[1]
                    sources == last.result[1].sources
                IN  /\ Len(sources) = Min(top_k_final, Len(found))
                    /\ \A i \in 1..Len(sources) :
                          /\ sources[i].page = page_or_unknown(meta_or_empty(found[i][1]))
                          /\ sources[i].score = round3(found[i][2], Unit)
                          /\ sources[i].preview = Append(found[i][1].page_content, "...")

C26_Witness ==
    /\ last.path = "full" /\ ~last.use_rerank
    /\ Len(last.retrieved[1]) = 6
    /\ Len(last.result[1].sources) = top_k_final
    /\ last.result[1].sources[5].page = "11"

\* C25: a call answered from the cache invokes neither the retriever, the
\* reranker nor the generator; a miss that retrieved passages invokes the
\* retriever, then the reranker (with use_rerank) or cuts the list, then the
\* generator, and updates the metrics and writes the cache only after the
\* generation: as long as the generator was not reached the call has changed
\* no counter and written no entry.
C25_OrderOfEvents ==
    [][ CallStep =>
          /\ IsHit(last') =>
                /\ last'.calls = <<>> /\ last'.retrieved = <<>>
                /\ last'.llm = "none"
          /\ last'.path = "full" =>
                /\ last'.retrieved # <<>> /\ last'.retrieved[1] # <<>>
                /\ last'.calls = <<"search">>
                                   \o (IF last'.use_rerank THEN <<"rerank">> ELSE <<>>)
                                   \o <<"generate">>
          /\ (/\ last'.retrieved # <<>> /\ last'.retrieved[1] # <<>>
              /\ "generate" \notin Range(last'.calls)) =>
                /\ metrics' = metrics
                /\ ~Written(cache, cache') ]_vars

(***************************************************************************)
(* Properties of the final score (specification SpecScore)                 *)
(***************************************************************************)
\* C27 as stated: for some query and some passage with a similarity in [0, 1]
\* the final score of the reranker exceeds 1.
C27_CanExceedOne ==
    \E q \in {<<>>, <<"revenue">>, <<"growth", SP, "stores">>},
       d \in {DocRevenue, DocGrowth, DocStores, DocWorld, DocIdeal},
       sim \in Similarities :
        /\ last.path = "score"
        /\ final_score(q, d, sim) > Unit

\* C27 as amended: for a passage with a similarity in [0, 1] the final score
\* of the reranker never exceeds 1: it is at most
\* 0.6 + 0.2 + 0.1 + 0.1 x 0.25 = 0.925, the boost of at most 0.25 being
\* weighted by 0.1 like the other signals.
C27_AtMost0925 ==
    (last.path = "score" /\ last.done) =>
        /\ last.score <= (6 * Unit + 2 * Unit + Unit + 250000) \div 10
        /\ last.score <= Unit

C27_Witness ==
    /\ last.path = "score" /\ last.done
    /\ last.args.sim_score = Unit /\ last.args.doc = DocIdeal
    /\ last.score = 925000

====
